---- MODULE Spec2Model ----
(***************************************************************************)
(* MediaCollect: batch orchestration and idempotent persistence layer.     *)
(*                                                                         *)
(* Nine parts of the program are modelled, each with its own               *)
(* specification over its own group of variables:                          *)
(*   SplitSpec   TimeInterval.split_by_* and the batch loop of             *)
(*               BatchTimeCollector.collect_hashtag_with_time_split        *)
(*               (SplitFairSpec: the same with the loop kept running)      *)
(*   UpsertSpec  DatabaseManager._update_table and its callers             *)
(*   LockSpec    file_lock (POSIX branch: open / flock / unlink)           *)
(*   RunSpec     batch_collect, async_batch_collect and                    *)
(*               multiprocess_batch_collect                                *)
(*   JobSpec     collect_user, the job runner, one step at a time          *)
(*   CoSpec      two writers in _update_table on one target table          *)
(*   PaceSpec    the delays of batch_collect                               *)
(*   MainSpec    main: the modes, file_lock and the crawler                *)
(*   LoadSpec    load_accounts_from_file                                   *)
(***************************************************************************)
EXTENDS Integers, Sequences, FiniteSets, TLC

VARIABLES
    \* ---- batch_time_collector.py ----
    start_date,        \* parsed start of the requested range
    end_date,          \* parsed end of the requested range
    split_strategy,    \* 'days' | 'months' | 'years' | anything else
    interval_size,     \* units per batch
    current_start,     \* loop cursor of split_by_*
    intervals,         \* list of (start, end) built by split_by_*
    split_pc,          \* position inside collect_hashtag_with_time_split
    batch_i,           \* 1-based index of the next interval to collect
    success_batches,   \* batches whose result had success = True
    failed_batches,    \* batches that failed or raised
    history_entries,   \* save_collection_history calls of the batches
    total_posts,       \* the loop's total_posts
    all_results,       \* len(result.posts) of the results in all_results
    attempted_batches, \* the intervals handed to _collect_single_batch, in order
    batch_sleeps,      \* positions i after which the loop called time.sleep
    batch_platform,    \* the platform argument of the request
    post_created_at,   \* created_at of one post the hashtag scrape can return
    kept_by,           \* positions of the batches whose result.posts held that post
    \* ---- core/database_manager.py ----
    table_name,        \* the target table this behaviour follows
    table,             \* bag of rows of table_name (durable)
    diff_table,        \* bag of keys in its *_diff table
    unique_key,        \* whether table_name declares the key UNIQUE
    records,           \* argument of the running save_* call
    df,                \* DataFrame handed to _update_table
    upsert_pc,         \* position inside _update_table
    upsert_status,     \* how the last save_* call ended
    \* history of the calls, kept for the properties
    pre_table,         \* table at the entry of the last call
    written,           \* key -> value in the latest successful batch with it
    no_failure,        \* no save_* call has raised so far
    \* ---- main.py: file_lock ----
    path_inode,        \* file that lock_file_path names, NoFile if none
    inodes_created,    \* number of files created so far at lock_file_path
    content,           \* file -> pid written in it, Empty if truncated
    flock_holder,      \* file -> process holding the exclusive flock
    fd,                \* process -> file its lock_file has open
    lock_pc,           \* process -> position inside file_lock
    \* ---- main.py: SocialMediaCrawler batch runs ----
    platform,          \* platform argument of the batch
    discord_token,     \* whether self.discord_token is set
    input_list,        \* username_list as passed in
    concurrent_limit,  \* --concurrent-limit
    num_processes,     \* --num-processes, NotGiven for None
    discipline,        \* which of the three batch methods is running
    run_pc,            \* position inside that method
    username_list,     \* username_list after the shuffle
    seq_i,             \* batch_collect: position of the next job
    semaphore,         \* async_batch_collect: free slots
    task_pc,           \* async_batch_collect: job -> position of its task
    next_task,         \* multiprocess_batch_collect: next job to hand out
    pool,              \* multiprocess_batch_collect: workers of the open pool
    worker_job,        \* multiprocess_batch_collect: worker -> its job
    attempted,         \* jobs whose collection was started
    results,           \* job -> what the run got back for it
    summary,           \* <<success_count, fail_count>> once reported
    flags_by,          \* discipline -> <<successes, failures>> of its run
    \* ---- main.py: one job of the job runner (collect_user) ----
    job_token,         \* whether self.discord_token is set
    job_no,            \* which call of the runner this is
    job_pc,            \* position inside collect_user
    collect_outcome,   \* what collector.collect_all did
    stored,            \* what save_collection_result did
    ledger_failed,     \* a save_collection_history call of this job failed
    job_result,        \* success flag of the CollectionResult returned
    ledger,            \* rows of collection_history: <<job, success>>
    \* ---- core/database_manager.py: concurrent _update_table calls ----
    shared_table,      \* bag of rows of the table all writers upsert into
    shared_diff,       \* bag of keys in its *_diff table
    shared_unique,     \* whether the table declares the key UNIQUE
    writer_df,         \* writer -> DataFrame of its _update_table call
    writer_pc,         \* writer -> position inside _update_table
    \* ---- main.py: batch_collect, the sleeps of the loop ----
    pace_len,          \* len(username_list)
    pace_i,            \* i of "for i, username in enumerate(username_list)"
    pace_pc,           \* position inside batch_collect
    batch_delays,      \* the i before whose job the batch delay was slept
    job_delays,        \* the i after whose job the inter-job delay was slept
    raised_jobs,       \* the i whose collect_user call raised
    \* ---- main.py: main ----
    mode,              \* args.mode
    args_given,        \* whether --platform / --username / --hashtag are set
    main_pc,           \* position inside main
    lock_held,         \* the process holds the flock of file_lock
    crawler_open,      \* SocialMediaCrawler() made, close() not yet called
    jobs_run,          \* jobs the crawler has run (each one writes storage)
    \* ---- config/accounts_loader.py: load_accounts_from_file ----
    file_exists,       \* os.path.exists(file_path)
    file_lines,        \* the lines of the file, each a sequence of tokens
    line_no,           \* position of the next line the for loop reads
    current_platform,  \* current_platform
    accounts,          \* accounts: platform -> list of usernames
    load_pc            \* position inside load_accounts_from_file

batchVars == <<batch_i, success_batches, failed_batches, history_entries,
               total_posts, all_results, attempted_batches, batch_sleeps,
               batch_platform, post_created_at, kept_by>>

splitVars == <<start_date, end_date, split_strategy, interval_size,
               current_start, intervals, split_pc, batchVars>>

dbVars == <<table_name, table, diff_table, unique_key, records, df,
            upsert_pc, upsert_status, pre_table, written, no_failure>>

lockVars == <<path_inode, inodes_created, content, flock_holder, fd, lock_pc>>

runVars == <<platform, discord_token, input_list, concurrent_limit,
             num_processes, discipline, run_pc, username_list, seq_i,
             semaphore, task_pc, next_task, pool, worker_job, attempted,
             results, summary, flags_by>>

jobVars == <<job_token, job_no, job_pc, collect_outcome, stored,
             ledger_failed, job_result, ledger>>

coVars == <<shared_table, shared_diff, shared_unique, writer_df, writer_pc>>

paceVars == <<pace_len, pace_i, pace_pc, batch_delays, job_delays, raised_jobs>>

mainVars == <<mode, args_given, main_pc, lock_held, crawler_open, jobs_run>>

loadVars == <<file_exists, file_lines, line_no, current_platform, accounts,
              load_pc>>

vars == <<splitVars, dbVars, lockVars, runVars, jobVars,
          coVars, paceVars, mainVars, loadVars>>

\* what the statements of one part leave alone
notSplit == <<dbVars, lockVars, runVars, jobVars, coVars,
              paceVars, mainVars, loadVars>>

notDb == <<splitVars, lockVars, runVars, jobVars, coVars,
           paceVars, mainVars, loadVars>>

notLock == <<splitVars, dbVars, runVars, jobVars, coVars,
             paceVars, mainVars, loadVars>>

notRun == <<splitVars, dbVars, lockVars, jobVars, coVars,
            paceVars, mainVars, loadVars>>

notJob == <<splitVars, dbVars, lockVars, runVars, coVars,
            paceVars, mainVars, loadVars>>

notCo == <<splitVars, dbVars, lockVars, runVars, jobVars,
           paceVars, mainVars, loadVars>>

notPace == <<splitVars, dbVars, lockVars, runVars, jobVars,
             coVars, mainVars, loadVars>>

notMain == <<splitVars, dbVars, lockVars, runVars, jobVars,
             coVars, paceVars, loadVars>>

notLoad == <<splitVars, dbVars, lockVars, runVars, jobVars,
             coVars, paceVars, mainVars>>

(***************************************************************************)
(* Bounds                                                                  *)
(***************************************************************************)
MaxIntervalSize == 3

MaxBatches == 3

MaxPosts == 2

MaxExtraIntervals == 1

MaxLines == 4

MaxKey == 2
MaxVal == 2
MaxBatch == 2
NumProcs == 3
MaxJobs == 3

MaxRunnerJobs == 3

NumWriters == 2

MaxPaceJobs == 7

MaxMainJobs == 3
MaxLimit == 2
MaxProcesses == 2
CpuCount == 2

(***************************************************************************)
(* Calendar arithmetic (datetime, timedelta, dateutil.relativedelta).      *)
(* A date is <<year, month, day>>; parse_date yields midnight UTC, so the  *)
(* time of day is always 00:00 and is left out.                            *)
(***************************************************************************)
IsLeap(y) == (y % 4 = 0 /\ y % 100 # 0) \/ y % 400 = 0

DaysInMonth(y, m) ==
    IF m = 2 THEN (IF IsLeap(y) THEN 29 ELSE 28)
    ELSE IF m \in {4, 6, 9, 11} THEN 30 ELSE 31

Min(a, b) == IF a < b THEN a ELSE b

\* datetime.__lt__ on two dates
DateLt(a, b) ==
    \/ a[1] < b[1]
    \/ a[1] = b[1] /\ a[2] < b[2]
    \/ a[1] = b[1] /\ a[2] = b[2] /\ a[3] < b[3]

DateLe(a, b) == a = b \/ DateLt(a, b)

NextDay(a) ==
    IF a[3] < DaysInMonth(a[1], a[2]) THEN <<a[1], a[2], a[3] + 1>>
    ELSE IF a[2] < 12 THEN <<a[1], a[2] + 1, 1>>
    ELSE <<a[1] + 1, 1, 1>>

PrevDay(a) ==
    IF a[3] > 1 THEN <<a[1], a[2], a[3] - 1>>
    ELSE IF a[2] > 1 THEN <<a[1], a[2] - 1, DaysInMonth(a[1], a[2] - 1)>>
    ELSE <<a[1] - 1, 12, 31>>

RECURSIVE AddDays(_, _)
\* date + timedelta(days=n)
AddDays(a, n) ==
    IF n = 0 THEN a
    ELSE IF n > 0 THEN AddDays(NextDay(a), n - 1)
    ELSE AddDays(PrevDay(a), n + 1)

\* date + relativedelta(months=n): month arithmetic, the day is clamped to
\* the length of the target month
AddMonths(a, n) ==
    LET total == (a[2] - 1) + n
        y     == a[1] + (total \div 12)
        m     == (total % 12) + 1
    IN  <<y, m, Min(a[3], DaysInMonth(y, m))>>

\* date + relativedelta(years=n)
AddYears(a, n) ==
    LET y == a[1] + n
    IN  <<y, a[2], Min(a[3], DaysInMonth(y, a[2]))>>

(***************************************************************************)
(* Inputs of the splitter                                                  *)
(***************************************************************************)
DateInputs ==
    { <<2024, 1, 1>>, <<2024, 1, 31>>, <<2024, 2, 29>>,
      <<2024, 3, 1>>, <<2024, 7, 1>>, <<2025, 2, 28>> }

StrategyInputs == {"days", "months", "years", "weeks"}

\* --interval-size is "type=int" without a check: 0 is one of its values
SizeInputs == 0 .. MaxIntervalSize

\* "if not post.created_at: continue": a post without created_at
NoStamp == <<>>

\* created_at values of the post that is followed through the batches
StampInputs == DateInputs \cup {<<2024, 2, 1>>, NoStamp}

\* a platform filtered after the collection, and twitter, filtered by its API
BatchPlatforms == {"instagram", "twitter"}

SplitIdle ==
    /\ start_date = <<2024, 1, 1>>
    /\ end_date = <<2024, 1, 1>>
    /\ split_strategy = "months"
    /\ interval_size = 1
    /\ current_start = <<2024, 1, 1>>
    /\ intervals = <<>>
    /\ split_pc = "idle"
    /\ batch_i = 1
    /\ success_batches = 0
    /\ failed_batches = 0
    /\ history_entries = 0
    /\ total_posts = 0
    /\ all_results = <<>>
    /\ attempted_batches = <<>>
    /\ batch_sleeps = {}
    /\ batch_platform = "instagram"
    /\ post_created_at = NoStamp
    /\ kept_by = {}

SplitStart ==
    /\ start_date \in DateInputs
    /\ end_date \in DateInputs
    /\ split_strategy \in StrategyInputs
    /\ interval_size \in SizeInputs
    /\ current_start = start_date
    /\ intervals = <<>>
    /\ split_pc = "validate"
    /\ batch_i = 1
    /\ success_batches = 0
    /\ failed_batches = 0
    /\ history_entries = 0
    /\ total_posts = 0
    /\ all_results = <<>>
    /\ attempted_batches = <<>>
    /\ batch_sleeps = {}
    /\ batch_platform \in BatchPlatforms
    /\ post_created_at \in StampInputs
    /\ kept_by = {}

(***************************************************************************)
(* collect_hashtag_with_time_split: validation and dispatch                *)
(***************************************************************************)
\* "if start_date >= end_date:"
InvalidRangeStrict(first, last) == DateLt(last, first)

InvalidRange(first, last) == ~DateLt(first, last)

ValidateRange ==
    /\ split_pc = "validate"
    /\ split_pc' = IF InvalidRange(start_date, end_date)
                   THEN "invalid_range" ELSE "dispatch"
    /\ UNCHANGED <<start_date, end_date, split_strategy, interval_size,
                   current_start, intervals, batchVars>>
    /\ UNCHANGED notSplit

Dispatch ==
    /\ split_pc = "dispatch"
    /\ split_pc' = IF split_strategy \in {"days", "months", "years"}
                   THEN split_strategy ELSE "unsupported_strategy"
    /\ current_start' = start_date
    /\ intervals' = <<>>
    /\ UNCHANGED <<start_date, end_date, split_strategy, interval_size,
                   batchVars>>
    /\ UNCHANGED notSplit

(***************************************************************************)
(* TimeInterval.split_by_*: one action is one evaluation of the while      *)
(* condition followed by the loop body or by the return.                   *)
(***************************************************************************)
\* "if current_end > end_date: current_end = end_date"
ClampNone(candidate, last) == candidate

Clamp(candidate, last) == IF DateLt(last, candidate) THEN last ELSE candidate

\* days from 0001-01-01 to the date, as datetime orders dates
RECURSIVE DaysBeforeMonth(_, _)
DaysBeforeMonth(y, m) ==
    IF m = 1 THEN 0 ELSE DaysBeforeMonth(y, m - 1) + DaysInMonth(y, m - 1)

DayNumber(a) ==
    365 * (a[1] - 1) + ((a[1] - 1) \div 4) - ((a[1] - 1) \div 100)
        + ((a[1] - 1) \div 400) + DaysBeforeMonth(a[1], a[2]) + a[3]

\* the while loop is followed for as many iterations as the range has days,
\* and MaxExtraIntervals more
SplitBudget == DayNumber(end_date) - DayNumber(start_date) + MaxExtraIntervals

SplitLoop(unit, candidate) ==
    /\ split_pc = unit
    /\ IF DateLt(current_start, end_date)
       THEN LET current_end == Clamp(candidate, end_date)
            IN  /\ Len(intervals) < SplitBudget
                /\ intervals' = Append(intervals, <<current_start, current_end>>)
                /\ current_start' = current_end
                /\ split_pc' = split_pc
       ELSE /\ split_pc' = "split_done"
            /\ UNCHANGED <<current_start, intervals>>
    /\ UNCHANGED <<start_date, end_date, split_strategy, interval_size,
                   batchVars>>
    /\ UNCHANGED notSplit

split_by_days == SplitLoop("days", AddDays(current_start, interval_size))

split_by_months == SplitLoop("months", AddMonths(current_start, interval_size))

split_by_years == SplitLoop("years", AddYears(current_start, interval_size))

(***************************************************************************)
(* collect_hashtag_with_time_split: the loop over the intervals.  The      *)
(* loop is followed for splits of at most MaxBatches intervals.            *)
(***************************************************************************)
\* how one call of _collect_single_batch goes: the factory gives no
\* collector, the result has posts left after the time filter, the result
\* is a success without posts, the result is a failure, or something raises
BatchOutcomes == {"no_collector", "posts", "no_posts", "failed", "raises"}

\* len(result.posts) of a result that has posts left after the time filter
PostCounts == 1 .. MaxPosts

\* "if i < len(intervals):" in front of the sleep between two batches
\* "if interval_start <= post_created_at < interval_end:", after
\* "if not post.created_at: continue"
InIntervalClosed(interval, created_at) ==
    /\ created_at # NoStamp
    /\ DateLe(interval[1], created_at)
    /\ DateLe(created_at, interval[2])

InInterval(interval, created_at) ==
    /\ created_at # NoStamp
    /\ DateLe(interval[1], created_at)
    /\ DateLt(created_at, interval[2])

\* whether a fetched post is in result.posts after the filtering block: the
\* block is skipped for twitter, whose API was given the two dates
KeptAfterFilter(interval) ==
    IF batch_platform = "twitter" THEN TRUE
    ELSE InInterval(interval, post_created_at)

BatchSleepAlways(i) == TRUE

BatchSleepDue(i) == i < Len(intervals)

\* one iteration: _collect_single_batch and the counters of the loop;
\* the batch is stored and recorded only under
\* "if result.success and result.posts:"
CollectSingleBatch ==
    /\ split_pc = "split_done"
    /\ Len(intervals) <= MaxBatches
    /\ batch_i <= Len(intervals)
    /\ batch_i' = batch_i + 1
    /\ attempted_batches' = Append(attempted_batches, intervals[batch_i])
    /\ \E outcome \in BatchOutcomes, n \in PostCounts, fetched \in BOOLEAN :
          LET posts == IF outcome = "posts" THEN n ELSE 0
              kept  == fetched /\ KeptAfterFilter(intervals[batch_i])
          IN  /\ outcome # "posts" => n = 1
              /\ fetched => outcome \in {"posts", "no_posts"}
              /\ kept => outcome = "posts"
              /\ kept_by' = IF kept THEN kept_by \cup {batch_i} ELSE kept_by
              /\ success_batches' = IF outcome \in {"posts", "no_posts"}
                                    THEN success_batches + 1 ELSE success_batches
              /\ failed_batches' = IF outcome \in {"posts", "no_posts"}
                                   THEN failed_batches ELSE failed_batches + 1
              /\ history_entries' = IF outcome = "posts"
                                    THEN history_entries + 1 ELSE history_entries
              /\ all_results' = IF outcome \in {"posts", "no_posts"}
                                THEN Append(all_results, posts) ELSE all_results
              /\ total_posts' = IF outcome \in {"posts", "no_posts"}
                                THEN total_posts + posts ELSE total_posts
    /\ batch_sleeps' = IF BatchSleepDue(batch_i)
                       THEN batch_sleeps \cup {batch_i} ELSE batch_sleeps
    /\ UNCHANGED <<start_date, end_date, split_strategy, interval_size,
                   current_start, intervals, split_pc>>
    /\ UNCHANGED <<batch_platform, post_created_at>>
    /\ UNCHANGED notSplit

\* the summary is logged and the dictionary with success True is returned
ReturnSummary ==
    /\ split_pc = "split_done"
    /\ Len(intervals) <= MaxBatches
    /\ batch_i > Len(intervals)
    /\ split_pc' = "returned"
    /\ UNCHANGED <<start_date, end_date, split_strategy, interval_size,
                   current_start, intervals, batchVars>>
    /\ UNCHANGED notSplit

(***************************************************************************)
(* core/database_manager.py: the upsert engine.                            *)
(* A record is [key, val]: key stands for the tuple of primary_keys        *)
(* columns, val for all the other columns.  A table is a bag of rows.      *)
(* save_posts, save_stories and save_hashtag_posts write three different   *)
(* tables, each with a diff table of its own, and no statement names two   *)
(* of them: a behaviour follows the calls on one target, table_name.       *)
(***************************************************************************)
Keys == 1 .. MaxKey

Vals == 1 .. MaxVal

Rows == [key : Keys, val : Vals]

TableNames == {"social_posts", "social_stories", "social_hashtag_posts"}

RECURSIVE SeqsUpTo(_, _)
SeqsUpTo(S, n) ==
    IF n = 0 THEN {<<>>}
    ELSE LET shorter == SeqsUpTo(S, n - 1)
         IN  shorter \cup {Append(q, x) : q \in {t \in shorter : Len(t) = n - 1}, x \in S}

\* the lists of posts a collector can hand to save_*
RecordInputs == SeqsUpTo(Rows, MaxBatch)

EmptyTable == [r \in Rows |-> 0]

EmptyDiff == [k \in Keys |-> 0]

Count(q, x) == Cardinality({i \in DOMAIN q : q[i] = x})

CountKey(q, k) == Cardinality({i \in DOMAIN q : q[i].key = k})

KeysOf(q) == {q[i].key : i \in DOMAIN q}

\* df.drop_duplicates(subset=[...key...], keep='last')
RECURSIVE DropDuplicatesKeepFirst(_)
DropDuplicatesKeepFirst(q) ==
    IF q = <<>> THEN <<>>
    ELSE LET front == SubSeq(q, 1, Len(q) - 1)
             last  == q[Len(q)]
         IN  IF last.key \in KeysOf(front)
             THEN DropDuplicatesKeepFirst(front)
             ELSE Append(DropDuplicatesKeepFirst(front), last)

RECURSIVE DropDuplicatesKeepLast(_)
DropDuplicatesKeepLast(q) ==
    IF q = <<>> THEN <<>>
    ELSE IF Head(q).key \in KeysOf(Tail(q))
         THEN DropDuplicatesKeepLast(Tail(q))
         ELSE <<Head(q)>> \o DropDuplicatesKeepLast(Tail(q))

\* the value of the last record of q that has key k
LastVal(q, k) ==
    LET last == CHOOSE i \in DOMAIN q :
                    /\ q[i].key = k
                    /\ \A j \in DOMAIN q : q[j].key = k => j <= i
    IN  q[last].val

DbIdle ==
    /\ table_name = "social_posts"
    /\ table = EmptyTable
    /\ diff_table = EmptyDiff
    /\ unique_key = FALSE
    /\ records = <<>>
    /\ df = <<>>
    /\ upsert_pc = "idle"
    /\ upsert_status = "none"
    /\ pre_table = EmptyTable
    /\ written = [k \in Keys |-> 0]
    /\ no_failure = TRUE

DbStart ==
    /\ table_name \in TableNames
    /\ table = EmptyTable
    /\ diff_table = EmptyDiff
    /\ unique_key \in BOOLEAN
    /\ records = <<>>
    /\ df = <<>>
    /\ upsert_pc = "idle"
    /\ upsert_status = "none"
    /\ pre_table = EmptyTable
    /\ written = [k \in Keys |-> 0]
    /\ no_failure = TRUE

\* entry of a save_* call: "if not posts: return", else build the
\* DataFrame and enter _update_table ("if len(df) == 0: return")
SaveCall(posts, frame, target) ==
    /\ upsert_pc = "idle"
    /\ table_name = target
    /\ records' = posts
    /\ df' = frame
    /\ pre_table' = table
    /\ IF frame = <<>>
       THEN /\ upsert_pc' = "idle"
            /\ upsert_status' = "returned"
       ELSE /\ upsert_pc' = "truncate"
            /\ upsert_status' = "running"
    /\ UNCHANGED <<table_name, table, diff_table, unique_key, written, no_failure>>
    /\ UNCHANGED notDb

save_posts == \E posts \in RecordInputs : SaveCall(posts, posts, "social_posts")

save_stories == \E stories \in RecordInputs : SaveCall(stories, stories, "social_stories")

save_hashtag_posts ==
    \E posts \in RecordInputs :
        SaveCall(posts, DropDuplicatesKeepLast(posts), "social_hashtag_posts")

\* Step 1a: TRUNCATE TABLE {diff_table_name}; commit
KeepDiff(old) == old

TruncatedDiff(old) == EmptyDiff

TruncateDiff ==
    /\ upsert_pc = "truncate"
    /\ diff_table' = TruncatedDiff(diff_table)
    /\ upsert_pc' = "load"
    /\ UNCHANGED <<table_name, table, unique_key, records, df, upsert_status,
                   pre_table, written, no_failure>>
    /\ UNCHANGED notDb

\* Step 1b: df.loc[:, primary_keys].to_sql(diff_table_name, if_exists='append')
LoadDiff ==
    /\ upsert_pc = "load"
    /\ diff_table' = [k \in Keys |-> diff_table[k] + CountKey(df, k)]
    /\ upsert_pc' = "delete"
    /\ UNCHANGED <<table_name, table, unique_key, records, df, upsert_status,
                   pre_table, written, no_failure>>
    /\ UNCHANGED notDb

\* Step 2: DELETE tb FROM table tb WHERE EXISTS (SELECT 1 FROM diff tb2
\*         WHERE tb.key = tb2.key); commit
DeleteAll(tb, diff) == EmptyTable

DeleteMatching(tb, diff) == [r \in Rows |-> IF diff[r.key] > 0 THEN 0 ELSE tb[r]]

DeleteExisting ==
    /\ upsert_pc = "delete"
    /\ table' = DeleteMatching(table, diff_table)
    /\ upsert_pc' = "insert"
    /\ UNCHANGED <<table_name, diff_table, unique_key, records, df,
                   upsert_status, pre_table, written, no_failure>>
    /\ UNCHANGED notDb

\* a UNIQUE key on the target rejects the whole INSERT when two rows of the
\* result would share a key
ViolatesUniqueKey(tb, frame) ==
    \E k \in Keys :
        CountKey(frame, k) + Cardinality({r \in Rows : r.key = k /\ tb[r] > 0}) > 1

\* Step 3: df.to_sql(table_name, if_exists='append'), then return
InsertNew ==
    /\ upsert_pc = "insert"
    /\ ~(unique_key /\ ViolatesUniqueKey(table, df))
    /\ table' = [r \in Rows |-> table[r] + Count(df, r)]
    /\ written' = [k \in Keys |->
                     IF k \in KeysOf(df) THEN LastVal(df, k) ELSE written[k]]
    /\ upsert_pc' = "idle"
    /\ upsert_status' = "returned"
    /\ UNCHANGED <<table_name, diff_table, unique_key, records, df, pre_table,
                   no_failure>>
    /\ UNCHANGED notDb

\* "except Exception as e: ... raise": any of the statements of the three
\* steps can fail (connection lost, integrity error, ...); what the earlier
\* statements committed stays committed
UpdateTableRaises ==
    /\ upsert_pc \in {"truncate", "load", "delete", "insert"}
    /\ upsert_pc' = "idle"
    /\ upsert_status' = "raised"
    /\ no_failure' = FALSE
    /\ UNCHANGED <<table_name, table, diff_table, unique_key, records, df,
                   pre_table, written>>
    /\ UNCHANGED notDb

(***************************************************************************)
(* main.py: file_lock, the branch taken on every system but Windows.       *)
(* Each process is one invocation of a scheduled mode; one action is one   *)
(* system call (open, flock, write, close, unlink) of one process.         *)
(* An flock belongs to the open file, not to the path: unlinking the path  *)
(* leaves the open files and their locks alone, and opening the path       *)
(* afterwards creates another file.                                        *)
(***************************************************************************)
Procs == 1 .. NumProcs

\* every process opens the path once, so at most NumProcs files are created
Inodes == 1 .. NumProcs

NoFile == 0

NoProc == 0

Empty == 0

LockIdle ==
    /\ path_inode = NoFile
    /\ inodes_created = 0
    /\ content = [i \in Inodes |-> Empty]
    /\ flock_holder = [i \in Inodes |-> NoProc]
    /\ fd = [p \in Procs |-> NoFile]
    /\ lock_pc = [p \in Procs |-> "idle"]

LockStart ==
    /\ path_inode = NoFile
    /\ inodes_created = 0
    /\ content = [i \in Inodes |-> Empty]
    /\ flock_holder = [i \in Inodes |-> NoProc]
    /\ fd = [p \in Procs |-> NoFile]
    /\ lock_pc = [p \in Procs |-> "start"]

\* lock_file = open(lock_file_path, 'w'): creates the file when the path
\* names none, and truncates it in either case
OpenLockFile(p) ==
    /\ lock_pc[p] = "start"
    /\ LET f == IF path_inode = NoFile THEN inodes_created + 1 ELSE path_inode
       IN  /\ path_inode' = f
           /\ inodes_created' = IF path_inode = NoFile
                                THEN inodes_created + 1 ELSE inodes_created
           /\ content' = [content EXCEPT ![f] = Empty]
           /\ fd' = [fd EXCEPT ![p] = f]
    /\ lock_pc' = [lock_pc EXCEPT ![p] = "opened"]
    /\ UNCHANGED flock_holder
    /\ UNCHANGED notLock

\* what the finally block of a caller that failed to lock leaves at the
\* path: lock_file was closed before sys.exit(1), so lock_file.fileno()
\* raises ValueError and neither LOCK_UN nor os.remove is reached
LoserRemovesPath(f) == NoFile

LoserLeavesPath(f) == f

\* fcntl.flock(lock_file.fileno(), LOCK_EX | LOCK_NB) succeeds
AcquireLock(p) ==
    /\ lock_pc[p] = "opened"
    /\ flock_holder[fd[p]] = NoProc
    /\ flock_holder' = [flock_holder EXCEPT ![fd[p]] = p]
    /\ lock_pc' = [lock_pc EXCEPT ![p] = "locked"]
    /\ UNCHANGED <<path_inode, inodes_created, content, fd>>
    /\ UNCHANGED notLock

\* ... or raises IOError: lock_file.close(); sys.exit(1); finally block
LockHeldExit(p) ==
    /\ lock_pc[p] = "opened"
    /\ flock_holder[fd[p]] # NoProc
    /\ fd' = [fd EXCEPT ![p] = NoFile]
    /\ path_inode' = LoserLeavesPath(path_inode)
    /\ lock_pc' = [lock_pc EXCEPT ![p] = "exit1"]
    /\ UNCHANGED <<inodes_created, content, flock_holder>>
    /\ UNCHANGED notLock

\* lock_file.write(PID...); lock_file.flush(); yield
WriteLockInfo(p) ==
    /\ lock_pc[p] = "locked"
    /\ content' = [content EXCEPT ![fd[p]] = p]
    /\ lock_pc' = [lock_pc EXCEPT ![p] = "body"]
    /\ UNCHANGED <<path_inode, inodes_created, flock_holder, fd>>
    /\ UNCHANGED notLock

\* where control goes when the body is left: the finally block, on a
\* normal return and on an exception alike
AfterBodyNoFinally(outcome) == IF outcome = "raised" THEN "propagated" ELSE "finally"

AfterBody(outcome) == "finally"

BodyReturns(p) ==
    /\ lock_pc[p] = "body"
    /\ lock_pc' = [lock_pc EXCEPT ![p] = AfterBody("returned")]
    /\ UNCHANGED <<path_inode, inodes_created, content, flock_holder, fd>>
    /\ UNCHANGED notLock

\* "except Exception as e: logger.error(...); raise"
BodyRaises(p) ==
    /\ lock_pc[p] = "body"
    /\ lock_pc' = [lock_pc EXCEPT ![p] = AfterBody("raised")]
    /\ UNCHANGED <<path_inode, inodes_created, content, flock_holder, fd>>
    /\ UNCHANGED notLock

\* finally: fcntl.flock(lock_file.fileno(), fcntl.LOCK_UN)
ReleaseLock(p) ==
    /\ lock_pc[p] = "finally"
    /\ flock_holder' = [flock_holder EXCEPT ![fd[p]] = NoProc]
    /\ lock_pc' = [lock_pc EXCEPT ![p] = "unlocked"]
    /\ UNCHANGED <<path_inode, inodes_created, content, fd>>
    /\ UNCHANGED notLock

\* lock_file.close(): closing the file also drops a lock held through it
CloseLockFile(p) ==
    /\ lock_pc[p] = "unlocked"
    /\ flock_holder' = [i \in Inodes |->
                           IF i = fd[p] /\ flock_holder[i] = p
                           THEN NoProc ELSE flock_holder[i]]
    /\ fd' = [fd EXCEPT ![p] = NoFile]
    /\ lock_pc' = [lock_pc EXCEPT ![p] = "closed"]
    /\ UNCHANGED <<path_inode, inodes_created, content>>
    /\ UNCHANGED notLock

\* if os.path.exists(lock_file_path): os.remove(lock_file_path)
RemoveLockFile(p) ==
    /\ lock_pc[p] = "closed"
    /\ path_inode' = NoFile
    /\ lock_pc' = [lock_pc EXCEPT ![p] = "done"]
    /\ UNCHANGED <<inodes_created, content, flock_holder, fd>>
    /\ UNCHANGED notLock

(***************************************************************************)
(* main.py: the three batch disciplines of SocialMediaCrawler.             *)
(* A job is one username; it is identified with what the platform          *)
(* collector does for it: "ok" (collect_all returns success), "fail"       *)
(* (returns success = False) or "raise" (the call raises).  The same       *)
(* input is run through batch_collect, async_batch_collect and             *)
(* multiprocess_batch_collect, one after the other.                        *)
(***************************************************************************)
Behaviours == {"ok", "fail", "raise"}

JobLists == SeqsUpTo(Behaviours, MaxJobs)

PlatformInputs == {"instagram", "facebook"}

\* the collectors that define collect_all with photo_limit, include_photos,
\* posts_newer_than, posts_older_than and caption_text; the others inherit
\* BaseSocialMediaCollector.collect_all(post_limit, story_limit,
\* include_stories)
OverridesCollectAll == {"instagram"}

Disciplines == <<"sequential", "async", "multiprocess">>

NotGiven == 0

NoJob == 0

\* pool: no pool has been opened / Pool(processes=...) raised
NoPool == 0

PoolFailed == -1

NotRun == <<>>

Positions == 1 .. Len(username_list)

\* np.random.choice(username_list, size=len(username_list), replace=False)
Shuffles(q) ==
    LET n == Len(q)
        bijections == {f \in [1 .. n -> 1 .. n] : \A i, j \in 1 .. n : f[i] = f[j] => i = j}
    IN  {[i \in 1 .. n |-> q[f[i]]] : f \in bijections}

\* notify(self.discord_token, ...) is called only when the token is set;
\* it posts to the webhook and does not catch what requests.post raises
NotifyOutcomes == IF discord_token THEN {"sent", "raises"} ELSE {"skipped"}

\* collector.collect_all(**collect_kwargs) in collect_user: collect_kwargs
\* always holds photo_limit, include_photos, posts_newer_than,
\* posts_older_than and caption_text, which the inherited collect_all
\* rejects with TypeError
CollectAll(job, plat) == IF plat \in OverridesCollectAll THEN job ELSE "raise"

\* async_collect_user passes post_limit, story_limit and include_stories
CollectAllAsync(job, plat) == job

\* collect_user / async_collect_user: what the caller gets, given what the
\* collector did and what notify did in the except branch
JobRunner(collected, notified) ==
    IF collected = "ok" THEN "success"
    ELSE IF collected = "fail" THEN "failure"
    ELSE IF notified = "raises" THEN "exception" ELSE "failure"

collect_user(job, notified) == JobRunner(CollectAll(job, platform), notified)

async_collect_user(job, notified) == JobRunner(CollectAllAsync(job, platform), notified)

\* <<number of success flags, number of failure flags>>
FlagsOf(res) ==
    <<Cardinality({i \in DOMAIN res : res[i] = "success"}),
      Cardinality({i \in DOMAIN res : res[i] \notin {"success", "pending"}})>>

\* success_count = sum(1 for r in results if ... r.success)
\* fail_count = len(results) - success_count
CountResults(res) ==
    LET success_count == Cardinality({i \in DOMAIN res : res[i] = "success"})
    IN  <<success_count, Len(res) - success_count>>

\* "if num_processes is None: num_processes = min(cpu_count(), len(...))"
NumWorkersAllCores ==
    IF num_processes = NotGiven THEN CpuCount
    ELSE num_processes

NumWorkers ==
    IF num_processes = NotGiven THEN Min(CpuCount, Len(username_list))
    ELSE num_processes

Workers == 1 .. MaxProcesses

RunIdle ==
    /\ platform = "instagram"
    /\ discord_token = FALSE
    /\ input_list = <<>>
    /\ concurrent_limit = 1
    /\ num_processes = NotGiven
    /\ discipline = 1
    /\ run_pc = "idle"
    /\ username_list = <<>>
    /\ seq_i = 1
    /\ semaphore = 0
    /\ task_pc = <<>>
    /\ next_task = 1
    /\ pool = NoPool
    /\ worker_job = [w \in Workers |-> NoJob]
    /\ attempted = {}
    /\ results = <<>>
    /\ summary = NotRun
    /\ flags_by = [d \in DOMAIN Disciplines |-> NotRun]

RunStart ==
    /\ platform \in PlatformInputs
    /\ discord_token \in BOOLEAN
    /\ input_list \in JobLists
    /\ concurrent_limit \in 0 .. MaxLimit
    /\ num_processes \in {NotGiven} \cup (1 .. MaxProcesses)
    /\ discipline = 1
    /\ run_pc = "start"
    /\ username_list = <<>>
    /\ seq_i = 1
    /\ semaphore = 0
    /\ task_pc = <<>>
    /\ next_task = 1
    /\ pool = NoPool
    /\ worker_job = [w \in Workers |-> NoJob]
    /\ attempted = {}
    /\ results = <<>>
    /\ summary = NotRun
    /\ flags_by = [d \in DOMAIN Disciplines |-> NotRun]

\* "if not username_list: ... return"
EmptyListReturn ==
    /\ run_pc = "start"
    /\ input_list = <<>>
    /\ run_pc' = "ended"
    /\ flags_by' = [flags_by EXCEPT ![discipline] = <<0, 0>>]
    /\ UNCHANGED <<platform, discord_token, input_list, concurrent_limit,
                   num_processes, discipline, username_list, seq_i, semaphore,
                   task_pc, next_task, worker_job, attempted, results, summary>>
    /\ UNCHANGED pool
    /\ UNCHANGED notRun

\* the shuffle and what each method sets up before its first job:
\* the semaphore and the tasks, or task_args and the pool
ShuffleAndDispatch ==
    /\ run_pc = "start"
    /\ input_list # <<>>
    /\ \E shuffled \in Shuffles(input_list) : username_list' = shuffled
    /\ results' = [i \in DOMAIN input_list |-> "pending"]
    /\ task_pc' = [i \in DOMAIN input_list |-> "pending"]
    /\ semaphore' = concurrent_limit
    /\ run_pc' = IF Disciplines[discipline] = "sequential" THEN "loop"
                 ELSE IF Disciplines[discipline] = "async" THEN "gather"
                 ELSE "pool"
    /\ UNCHANGED <<platform, discord_token, input_list, concurrent_limit,
                   num_processes, discipline, seq_i, next_task, worker_job,
                   attempted, summary, flags_by>>
    /\ UNCHANGED pool
    /\ UNCHANGED notRun

\* batch_collect: one iteration of "for i, username in enumerate(...)"
BatchCollectJob ==
    /\ run_pc = "loop"
    /\ seq_i <= Len(username_list)
    /\ attempted' = attempted \cup {seq_i}
    /\ \E notified \in NotifyOutcomes :
          LET got == collect_user(username_list[seq_i], notified)
          IN  /\ results' = [results EXCEPT ![seq_i] = got]
              /\ IF got # "exception"
                 THEN \* result = self.collect_user(...); time.sleep(delay)
                      /\ seq_i' = seq_i + 1
                      /\ run_pc' = run_pc
                 ELSE \* except Exception: logger.error; notify; continue
                      \E again \in NotifyOutcomes :
                          IF again = "raises"
                          THEN /\ run_pc' = "aborted"
                               /\ seq_i' = seq_i
                          ELSE /\ run_pc' = run_pc
                               /\ seq_i' = seq_i + 1
    /\ UNCHANGED <<platform, discord_token, input_list, concurrent_limit,
                   num_processes, discipline, username_list, semaphore,
                   task_pc, next_task, worker_job, summary, flags_by>>
    /\ UNCHANGED pool
    /\ UNCHANGED notRun

\* the loop is exhausted: "批次收集完成"
BatchCollectEnd ==
    /\ run_pc = "loop"
    /\ seq_i > Len(username_list)
    /\ run_pc' = "ended"
    /\ flags_by' = [flags_by EXCEPT ![discipline] = FlagsOf(results)]
    /\ UNCHANGED <<platform, discord_token, input_list, concurrent_limit,
                   num_processes, discipline, username_list, seq_i, semaphore,
                   task_pc, next_task, worker_job, attempted, results, summary>>
    /\ UNCHANGED pool
    /\ UNCHANGED notRun

\* asyncio.Semaphore.acquire: a slot is granted without waiting
SlotAlwaysFree(value) == TRUE

SlotFree(value) == value > 0

\* async_batch_collect: "async with semaphore" is entered, the task starts
\* its jitter sleep
TaskAcquire(t) ==
    /\ run_pc = "gather"
    /\ task_pc[t] = "pending"
    /\ SlotFree(semaphore)
    /\ semaphore' = semaphore - 1
    /\ task_pc' = [task_pc EXCEPT ![t] = "jitter"]
    /\ UNCHANGED <<platform, discord_token, input_list, concurrent_limit,
                   num_processes, discipline, run_pc, username_list, seq_i,
                   next_task, worker_job, attempted, results, summary, flags_by>>
    /\ UNCHANGED pool
    /\ UNCHANGED notRun

\* the jitter sleep is over: async_collect_user runs up to
\* "await collector.collect_all_async(...)"
TaskCollect(t) ==
    /\ run_pc = "gather"
    /\ task_pc[t] = "jitter"
    /\ task_pc' = [task_pc EXCEPT ![t] = "collecting"]
    /\ attempted' = attempted \cup {t}
    /\ UNCHANGED <<platform, discord_token, input_list, concurrent_limit,
                   num_processes, discipline, run_pc, username_list, seq_i,
                   semaphore, next_task, worker_job, results, summary, flags_by>>
    /\ UNCHANGED pool
    /\ UNCHANGED notRun

\* the collection is over: async_collect_user returns a result and the
\* task starts its inter-job sleep, or it raises and the except branch of
\* collect_with_semaphore returns None or raises in turn; leaving
\* "async with" releases the slot
TaskCollected(t) ==
    /\ run_pc = "gather"
    /\ task_pc[t] = "collecting"
    /\ \E notified \in NotifyOutcomes :
          LET got == async_collect_user(username_list[t], notified)
          IN  IF got # "exception"
              THEN /\ results' = [results EXCEPT ![t] = got]
                   /\ task_pc' = [task_pc EXCEPT ![t] = "delay"]
                   /\ semaphore' = semaphore
              ELSE \E again \in NotifyOutcomes :
                      /\ results' = [results EXCEPT ![t] =
                             IF again = "raises" THEN "exception" ELSE "none"]
                      /\ task_pc' = [task_pc EXCEPT ![t] = "settled"]
                      /\ semaphore' = semaphore + 1
    /\ UNCHANGED <<platform, discord_token, input_list, concurrent_limit,
                   num_processes, discipline, run_pc, username_list, seq_i,
                   next_task, worker_job, attempted, summary, flags_by>>
    /\ UNCHANGED pool
    /\ UNCHANGED notRun

\* the inter-job sleep is over: return result, the slot is released
TaskReturn(t) ==
    /\ run_pc = "gather"
    /\ task_pc[t] = "delay"
    /\ task_pc' = [task_pc EXCEPT ![t] = "settled"]
    /\ semaphore' = semaphore + 1
    /\ UNCHANGED <<platform, discord_token, input_list, concurrent_limit,
                   num_processes, discipline, run_pc, username_list, seq_i,
                   next_task, worker_job, attempted, results, summary, flags_by>>
    /\ UNCHANGED pool
    /\ UNCHANGED notRun

\* results = await asyncio.gather(*tasks, return_exceptions=True) returns;
\* the counts are logged
GatherReturns ==
    /\ run_pc = "gather"
    /\ \A t \in Positions : task_pc[t] = "settled"
    /\ summary' = CountResults(results)
    /\ flags_by' = [flags_by EXCEPT ![discipline] = FlagsOf(results)]
    /\ run_pc' = "ended"
    /\ UNCHANGED <<platform, discord_token, input_list, concurrent_limit,
                   num_processes, discipline, username_list, seq_i, semaphore,
                   task_pc, next_task, worker_job, attempted, results>>
    /\ UNCHANGED pool
    /\ UNCHANGED notRun

\* "with Pool(processes=num_processes) as pool:" starts the workers, or
\* raises: the except branch logs, notifies and the method returns
OpenPool ==
    /\ run_pc = "pool"
    /\ pool = NoPool
    /\ \E opened \in BOOLEAN :
          IF opened
          THEN pool' = NumWorkers /\ run_pc' = run_pc
          ELSE /\ pool' = PoolFailed
               /\ \E notified \in NotifyOutcomes :
                     run_pc' = IF notified = "raises" THEN "aborted" ELSE "ended"
    /\ UNCHANGED <<platform, discord_token, input_list, concurrent_limit,
                   num_processes, discipline, username_list, seq_i, semaphore,
                   task_pc, next_task, worker_job, attempted, results, summary,
                   flags_by>>
    /\ UNCHANGED notRun

\* multiprocess_batch_collect: a free worker of the pool takes the next
\* element of task_args and enters _multiprocess_collect_single_user
WorkerTakes(w) ==
    /\ run_pc = "pool"
    /\ w <= pool
    /\ worker_job[w] = NoJob
    /\ next_task <= Len(username_list)
    /\ worker_job' = [worker_job EXCEPT ![w] = next_task]
    /\ next_task' = next_task + 1
    /\ attempted' = attempted \cup {next_task}
    /\ UNCHANGED <<platform, discord_token, input_list, concurrent_limit,
                   num_processes, discipline, run_pc, username_list, seq_i,
                   semaphore, task_pc, results, summary, flags_by>>
    /\ UNCHANGED pool
    /\ UNCHANGED notRun

\* _multiprocess_collect_single_user returns its dictionary: the flag of
\* the result, or success False from the outer except
WorkerReturns(w) ==
    /\ run_pc = "pool"
    /\ worker_job[w] # NoJob
    /\ \E notified \in NotifyOutcomes :
          LET got == collect_user(username_list[worker_job[w]], notified)
          IN  results' = [results EXCEPT ![worker_job[w]] =
                             IF got = "success" THEN "success" ELSE "failure"]
    /\ worker_job' = [worker_job EXCEPT ![w] = NoJob]
    /\ UNCHANGED <<platform, discord_token, input_list, concurrent_limit,
                   num_processes, discipline, run_pc, username_list, seq_i,
                   semaphore, task_pc, next_task, attempted, summary, flags_by>>
    /\ UNCHANGED pool
    /\ UNCHANGED notRun

\* pool.map returns, the pool is closed and the statistics are logged
PoolMapReturns ==
    /\ run_pc = "pool"
    /\ \A i \in Positions : results[i] # "pending"
    /\ summary' = CountResults(results)
    /\ flags_by' = [flags_by EXCEPT ![discipline] = FlagsOf(results)]
    /\ run_pc' = "ended"
    /\ UNCHANGED <<platform, discord_token, input_list, concurrent_limit,
                   num_processes, discipline, username_list, seq_i, semaphore,
                   task_pc, next_task, worker_job, attempted, results>>
    /\ UNCHANGED pool
    /\ UNCHANGED notRun

\* main: the same accounts are run again under the next discipline
\* (--async, then --multiprocess)
NextDiscipline ==
    /\ run_pc \in {"ended", "aborted"}
    /\ discipline < Len(Disciplines)
    /\ discipline' = discipline + 1
    /\ run_pc' = "start"
    /\ username_list' = <<>>
    /\ seq_i' = 1
    /\ semaphore' = 0
    /\ task_pc' = <<>>
    /\ next_task' = 1
    /\ pool' = NoPool
    /\ worker_job' = [w \in Workers |-> NoJob]
    /\ attempted' = {}
    /\ results' = <<>>
    /\ summary' = NotRun
    /\ UNCHANGED <<platform, discord_token, input_list, concurrent_limit,
                   num_processes, flags_by>>
    /\ UNCHANGED notRun

(***************************************************************************)
(* main.py: SocialMediaCrawler.collect_user, one step at a time.           *)
(* async_collect_user and collect_hashtag have the same shape.  The        *)
(* runner is called MaxRunnerJobs times, one job after the other, on the   *)
(* same collection_history table.                                          *)
(***************************************************************************)
Unset == "unset"

JobIdle ==
    /\ job_token = FALSE
    /\ job_no = 1
    /\ job_pc = "idle"
    /\ collect_outcome = Unset
    /\ stored = "not_called"
    /\ ledger_failed = FALSE
    /\ job_result = Unset
    /\ ledger = <<>>

JobStart ==
    /\ job_token \in BOOLEAN
    /\ job_no = 1
    /\ job_pc = "create"
    /\ collect_outcome = Unset
    /\ stored = "not_called"
    /\ ledger_failed = FALSE
    /\ job_result = Unset
    /\ ledger = <<>>

\* CollectorFactory.create_collector and "if not collector: return
\* CollectionResult(success=False, ...)"
CreateCollector ==
    /\ job_pc = "create"
    /\ \E made \in BOOLEAN :
          IF made
          THEN job_pc' = "collect" /\ job_result' = job_result
          ELSE job_pc' = "returned" /\ job_result' = "failure"
    /\ UNCHANGED <<job_token, job_no, collect_outcome, stored, ledger_failed, ledger>>
    /\ UNCHANGED notJob

\* result = collector.collect_all(**collect_kwargs), then
\* "if result.success:" or the except branch
CollectorCall ==
    /\ job_pc = "collect"
    /\ \E got \in Behaviours :
          /\ collect_outcome' = got
          /\ job_pc' = IF got = "ok" THEN "store"
                       ELSE IF got = "fail" THEN "record" ELSE "notify"
    /\ UNCHANGED <<job_token, job_no, stored, ledger_failed, job_result, ledger>>
    /\ UNCHANGED notJob

\* DatabaseManager.save_collection_result: what the caller gets when the
\* save_* calls inside wrote the batch, or when one of them raised
SaveResultEnds(wrote) == IF wrote THEN "true" ELSE "false"

\* self.db.save_collection_result(result): the value returned is dropped
SaveCollectionResult ==
    /\ job_pc = "store"
    /\ \E wrote \in BOOLEAN :
          /\ stored' = IF wrote THEN "written" ELSE "failed"
          /\ job_pc' = IF SaveResultEnds(wrote) = "raises" THEN "notify"
                       ELSE "record"
    /\ UNCHANGED <<job_token, job_no, collect_outcome, ledger_failed, job_result, ledger>>
    /\ UNCHANGED notJob

\* DatabaseManager.save_collection_history: what the caller gets when
\* df.to_sql appended the row, or when it raised
HistoryCallRaises(appended) == IF appended THEN "true" ELSE "raises"

HistoryCallEnds(appended) == IF appended THEN "true" ELSE "false"

\* the row of collection_history
HistoryRow(success) == <<job_no, success>>

\* self.db.save_collection_history(success=result.success, ...) and
\* "return result"; an exception here would be caught by the except branch
SaveHistory ==
    /\ job_pc = "record"
    /\ \E appended \in BOOLEAN :
          /\ ledger' = IF appended
                       THEN Append(ledger, HistoryRow(collect_outcome = "ok"))
                       ELSE ledger
          /\ ledger_failed' = ~appended
          /\ IF HistoryCallEnds(appended) = "raises"
             THEN job_pc' = "notify" /\ job_result' = job_result
             ELSE /\ job_pc' = "returned"
                  /\ job_result' = IF collect_outcome = "ok" THEN "success" ELSE "failure"
    /\ UNCHANGED <<job_token, job_no, collect_outcome, stored>>
    /\ UNCHANGED notJob

\* except branch: "if self.discord_token: notify(...)", not guarded
ExceptNotify ==
    /\ job_pc = "notify"
    /\ IF job_token
       THEN \E notified \in {"sent", "raises"} :
               job_pc' = IF notified = "raises" THEN "raised" ELSE "except_record"
       ELSE job_pc' = "except_record"
    /\ UNCHANGED <<job_token, job_no, collect_outcome, stored, ledger_failed,
                   job_result, ledger>>
    /\ UNCHANGED notJob

\* except branch: try: save_collection_history(success=False, ...)
\* except: logger.error(...); then return CollectionResult(success=False)
ExceptSaveHistory ==
    /\ job_pc = "except_record"
    /\ \E appended \in BOOLEAN :
          /\ ledger' = IF appended THEN Append(ledger, HistoryRow(FALSE))
                       ELSE ledger
          /\ ledger_failed' = (ledger_failed \/ ~appended)
    /\ job_pc' = "returned"
    /\ job_result' = "failure"
    /\ UNCHANGED <<job_token, job_no, collect_outcome, stored>>
    /\ UNCHANGED notJob

\* the caller goes on to its next job
NextJob ==
    /\ job_pc \in {"returned", "raised"}
    /\ job_no < MaxRunnerJobs
    /\ job_no' = job_no + 1
    /\ job_pc' = "create"
    /\ collect_outcome' = Unset
    /\ stored' = "not_called"
    /\ ledger_failed' = FALSE
    /\ job_result' = Unset
    /\ UNCHANGED <<job_token, ledger>>
    /\ UNCHANGED notJob

(***************************************************************************)
(* core/database_manager.py: _update_table called by several writers on    *)
(* the same table, each through a DatabaseManager of its own (the workers  *)
(* of multiprocess_batch_collect create one SocialMediaCrawler per job).   *)
(* One action is one statement of one writer; every statement commits.     *)
(* The batches have no key twice.                                          *)
(***************************************************************************)
Writers == 1 .. NumWriters

\* DataFrames with at least one record and no key twice
DistinctBatches ==
    {q \in RecordInputs : Len(q) >= 1 /\ \A k \in Keys : CountKey(q, k) <= 1}

\* a table that holds one row, of value 1, for each of the keys given
TableWith(present) == [r \in Rows |-> IF r.key \in present /\ r.val = 1 THEN 1 ELSE 0]

CoIdle ==
    /\ shared_table = EmptyTable
    /\ shared_diff = EmptyDiff
    /\ shared_unique = FALSE
    /\ writer_df = [w \in Writers |-> <<>>]
    /\ writer_pc = [w \in Writers |-> "idle"]

CoStart ==
    /\ \E present \in SUBSET Keys : shared_table = TableWith(present)
    /\ shared_diff = EmptyDiff
    /\ shared_unique \in BOOLEAN
    /\ writer_df \in [Writers -> DistinctBatches]
    /\ writer_pc = [w \in Writers |-> "truncate"]

\* Step 1a of writer w: TRUNCATE TABLE diff; commit
WriterTruncateDiff(w) ==
    /\ writer_pc[w] = "truncate"
    /\ shared_diff' = TruncatedDiff(shared_diff)
    /\ writer_pc' = [writer_pc EXCEPT ![w] = "load"]
    /\ UNCHANGED <<shared_table, shared_unique, writer_df>>
    /\ UNCHANGED notCo

\* Step 1b of writer w: the keys of its batch are appended to the diff table
WriterLoadDiff(w) ==
    /\ writer_pc[w] = "load"
    /\ shared_diff' = [k \in Keys |-> shared_diff[k] + CountKey(writer_df[w], k)]
    /\ writer_pc' = [writer_pc EXCEPT ![w] = "delete"]
    /\ UNCHANGED <<shared_table, shared_unique, writer_df>>
    /\ UNCHANGED notCo

\* Step 2 of writer w: DELETE ... WHERE EXISTS (SELECT 1 FROM diff ...); commit
WriterDeleteExisting(w) ==
    /\ writer_pc[w] = "delete"
    /\ shared_table' = DeleteMatching(shared_table, shared_diff)
    /\ writer_pc' = [writer_pc EXCEPT ![w] = "insert"]
    /\ UNCHANGED <<shared_diff, shared_unique, writer_df>>
    /\ UNCHANGED notCo

\* Step 3 of writer w: the batch is appended to the table and the call
\* returns, or the UNIQUE key rejects the INSERT and the call raises
WriterInsertNew(w) ==
    /\ writer_pc[w] = "insert"
    /\ IF shared_unique /\ ViolatesUniqueKey(shared_table, writer_df[w])
       THEN /\ shared_table' = shared_table
            /\ writer_pc' = [writer_pc EXCEPT ![w] = "raised"]
       ELSE /\ shared_table' = [r \in Rows |-> shared_table[r] + Count(writer_df[w], r)]
            /\ writer_pc' = [writer_pc EXCEPT ![w] = "returned"]
    /\ UNCHANGED <<shared_diff, shared_unique, writer_df>>
    /\ UNCHANGED notCo

(***************************************************************************)
(* main.py: batch_collect, the sleeps of its loop.  Only the positions of  *)
(* the jobs matter here: which job is run is left out.                     *)
(***************************************************************************)
\* config/platform_config.py
BATCH_SIZE == 3

PaceIdle ==
    /\ pace_len = 1
    /\ pace_i = 0
    /\ pace_pc = "idle"
    /\ batch_delays = {}
    /\ job_delays = {}
    /\ raised_jobs = {}

PaceStart ==
    /\ pace_len \in 1 .. MaxPaceJobs
    /\ pace_i = 0
    /\ pace_pc = "loop"
    /\ batch_delays = {}
    /\ job_delays = {}
    /\ raised_jobs = {}

\* "if i % BATCH_SIZE == 0 and i != 0:" the batch delay is slept
BatchDelayDue(i) == i % BATCH_SIZE = 0 /\ i # 0

\* how the call of collect_user in the try block goes: it returns a result
\* (successful or not), it raises and the except branch goes on with the
\* next job, or notify raises in the except branch
CallOutcomes == {"returns", "raises", "except_raises"}

\* one iteration of the loop
PacedIteration ==
    /\ pace_pc = "loop"
    /\ pace_i < pace_len
    /\ batch_delays' = IF BatchDelayDue(pace_i) THEN batch_delays \cup {pace_i}
                       ELSE batch_delays
    /\ \E outcome \in CallOutcomes :
          /\ job_delays' = IF outcome = "returns" THEN job_delays \cup {pace_i}
                           ELSE job_delays
          /\ raised_jobs' = IF outcome = "returns" THEN raised_jobs
                            ELSE raised_jobs \cup {pace_i}
          /\ IF outcome = "except_raises"
             THEN pace_pc' = "aborted" /\ pace_i' = pace_i
             ELSE pace_pc' = pace_pc /\ pace_i' = pace_i + 1
    /\ UNCHANGED pace_len
    /\ UNCHANGED notPace

\* the list is exhausted: the closing banner is logged
PacedEnd ==
    /\ pace_pc = "loop"
    /\ pace_i >= pace_len
    /\ pace_pc' = "ended"
    /\ UNCHANGED <<pace_len, pace_i, batch_delays, job_delays, raised_jobs>>
    /\ UNCHANGED notPace

(***************************************************************************)
(* main.py: main, from the parsed arguments to the end of the process.     *)
(* file_lock is seen from the inside of one process here: it gets the lock *)
(* or it exits.                                                            *)
(***************************************************************************)
Modes == {"daily", "batch", "single", "hashtag", "interactive", "all"}

MainIdle ==
    /\ mode = "interactive"
    /\ args_given = FALSE
    /\ main_pc = "idle"
    /\ lock_held = FALSE
    /\ crawler_open = FALSE
    /\ jobs_run = 0

MainStart ==
    /\ mode \in Modes
    /\ args_given \in BOOLEAN
    /\ main_pc = "dispatch"
    /\ lock_held = FALSE
    /\ crawler_open = FALSE
    /\ jobs_run = 0

\* "use_lock = args.mode in ['daily', 'batch', 'all']"
UseLockDailyOnly(m) == m = "daily"

UseLock(m) == m \in {"daily", "batch", "all"}

\* the modes that return at once when an argument they need is missing
NeedsArgs(m) == m \in {"single", "hashtag", "batch"}

\* the if / elif chain over args.mode
DispatchMode ==
    /\ main_pc = "dispatch"
    /\ main_pc' = IF NeedsArgs(mode) /\ ~args_given THEN "exited"
                  ELSE IF UseLock(mode) THEN "acquire"
                  ELSE "make_crawler"
    /\ UNCHANGED <<mode, args_given, lock_held, crawler_open, jobs_run>>
    /\ UNCHANGED notMain

\* "with file_lock(lock_file_path):" the flock is granted, or another
\* process holds it and sys.exit(1) ends this one
EnterFileLock ==
    /\ main_pc = "acquire"
    /\ \E granted \in BOOLEAN :
          IF granted
          THEN lock_held' = TRUE /\ main_pc' = "make_crawler"
          ELSE lock_held' = lock_held /\ main_pc' = "exited"
    /\ UNCHANGED <<mode, args_given, crawler_open, jobs_run>>
    /\ UNCHANGED notMain

\* "crawler = SocialMediaCrawler()" opens the database connection, or
\* raises, outside the try block
MakeCrawler ==
    /\ main_pc = "make_crawler"
    /\ \E connected \in BOOLEAN :
          IF connected
          THEN crawler_open' = TRUE /\ main_pc' = "run"
          ELSE /\ crawler_open' = crawler_open
               /\ main_pc' = IF lock_held THEN "release" ELSE "exited"
    /\ UNCHANGED <<mode, args_given, lock_held, jobs_run>>
    /\ UNCHANGED notMain

\* one job of the run: collect, store, record
RunOneJob ==
    /\ main_pc = "run"
    /\ jobs_run < MaxMainJobs
    /\ jobs_run' = jobs_run + 1
    /\ UNCHANGED <<mode, args_given, main_pc, lock_held, crawler_open>>
    /\ UNCHANGED notMain

\* the try block is left, by return or by an exception
LeaveTry ==
    /\ main_pc = "run"
    /\ main_pc' = "close"
    /\ UNCHANGED <<mode, args_given, lock_held, crawler_open, jobs_run>>
    /\ UNCHANGED notMain

\* "finally: crawler.close()"
CloseCrawler ==
    /\ main_pc = "close"
    /\ crawler_open' = FALSE
    /\ main_pc' = IF lock_held THEN "release" ELSE "exited"
    /\ UNCHANGED <<mode, args_given, lock_held, jobs_run>>
    /\ UNCHANGED notMain

\* the finally block of file_lock
LeaveFileLock ==
    /\ main_pc = "release"
    /\ lock_held' = FALSE
    /\ main_pc' = "exited"
    /\ UNCHANGED <<mode, args_given, crawler_open, jobs_run>>
    /\ UNCHANGED notMain

(***************************************************************************)
(* config/accounts_loader.py: load_accounts_from_file.                     *)
(* A line of the file is a sequence of tokens: a token is a blank, one of  *)
(* the characters # [ ] or a word.                                         *)
(***************************************************************************)
\* the keys of the accounts dictionary
SupportedPlatforms == {"instagram", "facebook", "twitter", "threads"}

\* "current_platform = None"
NoPlatform == "none"

Blank == " "

\* str.strip(): blanks are removed at both ends
RECURSIVE Strip(_)
Strip(line) ==
    IF line = <<>> THEN line
    ELSE IF Head(line) = Blank THEN Strip(Tail(line))
    ELSE IF line[Len(line)] = Blank THEN Strip(SubSeq(line, 1, Len(line) - 1))
    ELSE line

\* str.lower() of a word
LowerWord(word) ==
    CASE word = "Instagram" -> "instagram"
      [] word = "Facebook" -> "facebook"
      [] OTHER -> word

Lower(line) == [i \in DOMAIN line |-> LowerWord(line[i])]

\* "if not line or line.startswith('#'): continue"
Skipped(line) == line = <<>> \/ Head(line) = "#"

\* "if line.startswith('[') and line.endswith(']'):"
IsHeader(line) ==
    /\ line # <<>>
    /\ Head(line) = "["
    /\ line[Len(line)] = "]"

\* "platform = line[1:-1].lower()"
HeaderName(line) == Lower(SubSeq(line, 2, Len(line) - 1))

\* "if platform in accounts:"
InAccounts(name) == Len(name) = 1 /\ name[1] \in SupportedPlatforms

LineInputs ==
    { <<>>,
      <<"#", "alice">>,
      <<"[", "instagram", "]">>,
      <<Blank, "[", "Facebook", "]">>,
      <<"[", "tiktok", "]">>,
      <<"alice">>,
      <<"bob", Blank>> }

FileInputs == SeqsUpTo(LineInputs, MaxLines)

NoAccounts == [pf \in SupportedPlatforms |-> <<>>]

LoadIdle ==
    /\ file_exists = FALSE
    /\ file_lines = <<>>
    /\ line_no = 1
    /\ current_platform = NoPlatform
    /\ accounts = NoAccounts
    /\ load_pc = "idle"

LoadStart ==
    /\ file_exists \in BOOLEAN
    /\ file_lines \in FileInputs
    /\ ~file_exists => file_lines = <<>>
    /\ line_no = 1
    /\ current_platform = NoPlatform
    /\ accounts = NoAccounts
    /\ load_pc = "start"

\* "if not os.path.exists(file_path): ... return accounts"
MissingFileReturn ==
    /\ load_pc = "start"
    /\ ~file_exists
    /\ load_pc' = "returned"
    /\ UNCHANGED <<file_exists, file_lines, line_no, current_platform, accounts>>
    /\ UNCHANGED notLoad

\* "current_platform = None" and "with open(file_path, 'r', ...) as f:"
OpenAccountsFile ==
    /\ load_pc = "start"
    /\ file_exists
    /\ current_platform' = NoPlatform
    /\ load_pc' = "reading"
    /\ UNCHANGED <<file_exists, file_lines, line_no, accounts>>
    /\ UNCHANGED notLoad

\* one iteration of "for line in f:"
ReadLine ==
    /\ load_pc = "reading"
    /\ line_no <= Len(file_lines)
    /\ line_no' = line_no + 1
    /\ LET line == Strip(file_lines[line_no])
       IN  IF Skipped(line)
           THEN UNCHANGED <<current_platform, accounts>>
           ELSE IF IsHeader(line)
           THEN /\ current_platform' = IF InAccounts(HeaderName(line))
                                       THEN HeaderName(line)[1]
                                       ELSE current_platform
                /\ UNCHANGED accounts
           ELSE /\ accounts' = IF current_platform # NoPlatform
                               THEN [accounts EXCEPT ![current_platform] =
                                        Append(@, Strip(line))]
                               ELSE accounts
                /\ UNCHANGED current_platform
    /\ UNCHANGED <<file_exists, file_lines, load_pc>>
    /\ UNCHANGED notLoad

\* "except Exception as e: ... return accounts": the read of the file raises
ReadRaises ==
    /\ load_pc = "reading"
    /\ load_pc' = "returned"
    /\ UNCHANGED <<file_exists, file_lines, line_no, current_platform, accounts>>
    /\ UNCHANGED notLoad

\* the loop is over: the result is printed and "return accounts"
ReturnAccounts ==
    /\ load_pc = "reading"
    /\ line_no > Len(file_lines)
    /\ load_pc' = "returned"
    /\ UNCHANGED <<file_exists, file_lines, line_no, current_platform, accounts>>
    /\ UNCHANGED notLoad

(***************************************************************************)
(* Specifications                                                          *)
(***************************************************************************)
SplitNext ==
    \/ ValidateRange
    \/ Dispatch
    \/ split_by_days
    \/ split_by_months
    \/ split_by_years
    \/ CollectSingleBatch
    \/ ReturnSummary

SplitInit == SplitStart /\ DbIdle /\ LockIdle /\ RunIdle /\ JobIdle /\ CoIdle /\ PaceIdle /\ MainIdle /\ LoadIdle

SplitSpec == SplitInit /\ [][SplitNext]_vars

\* the interpreter keeps running the loop it is in
SplitFairSpec == SplitSpec /\ WF_vars(SplitNext)

UpsertNext ==
    \/ save_posts
    \/ save_stories
    \/ save_hashtag_posts
    \/ TruncateDiff
    \/ LoadDiff
    \/ DeleteExisting
    \/ InsertNew
    \/ UpdateTableRaises

UpsertInit == DbStart /\ SplitIdle /\ LockIdle /\ RunIdle /\ JobIdle /\ CoIdle /\ PaceIdle /\ MainIdle /\ LoadIdle

UpsertSpec == UpsertInit /\ [][UpsertNext]_vars

ProcStep(p) ==
    \/ OpenLockFile(p)
    \/ AcquireLock(p)
    \/ LockHeldExit(p)
    \/ WriteLockInfo(p)
    \/ BodyReturns(p)
    \/ BodyRaises(p)
    \/ ReleaseLock(p)
    \/ CloseLockFile(p)
    \/ RemoveLockFile(p)

LockNext ==
    \/ \E p \in Procs : OpenLockFile(p)
    \/ \E p \in Procs : AcquireLock(p)
    \/ \E p \in Procs : LockHeldExit(p)
    \/ \E p \in Procs : WriteLockInfo(p)
    \/ \E p \in Procs : BodyReturns(p)
    \/ \E p \in Procs : BodyRaises(p)
    \/ \E p \in Procs : ReleaseLock(p)
    \/ \E p \in Procs : CloseLockFile(p)
    \/ \E p \in Procs : RemoveLockFile(p)

LockInit == LockStart /\ SplitIdle /\ DbIdle /\ RunIdle /\ JobIdle /\ CoIdle /\ PaceIdle /\ MainIdle /\ LoadIdle

LockSpec == LockInit /\ [][LockNext]_vars

\* every started process is scheduled: none of its system calls blocks
LockFairSpec == LockSpec /\ \A p \in Procs : WF_vars(ProcStep(p))

RunNext ==
    \/ EmptyListReturn
    \/ ShuffleAndDispatch
    \/ BatchCollectJob
    \/ BatchCollectEnd
    \/ \E t \in Positions : TaskAcquire(t)
    \/ \E t \in Positions : TaskCollect(t)
    \/ \E t \in Positions : TaskCollected(t)
    \/ \E t \in Positions : TaskReturn(t)
    \/ GatherReturns
    \/ OpenPool
    \/ \E w \in Workers : WorkerTakes(w)
    \/ \E w \in Workers : WorkerReturns(w)
    \/ PoolMapReturns
    \/ NextDiscipline

RunInit == RunStart /\ SplitIdle /\ DbIdle /\ LockIdle /\ JobIdle /\ CoIdle /\ PaceIdle /\ MainIdle /\ LoadIdle

RunSpec == RunInit /\ [][RunNext]_vars

\* the event loop runs every task that is ready, the pool every worker, and
\* collectors always return
RunFairSpec == RunSpec /\ WF_vars(RunNext)

JobNext ==
    \/ CreateCollector
    \/ CollectorCall
    \/ SaveCollectionResult
    \/ SaveHistory
    \/ ExceptNotify
    \/ ExceptSaveHistory
    \/ NextJob

JobInit == JobStart /\ SplitIdle /\ DbIdle /\ LockIdle /\ RunIdle /\ CoIdle /\ PaceIdle /\ MainIdle /\ LoadIdle

JobSpec == JobInit /\ [][JobNext]_vars

CoNext ==
    \/ \E w \in Writers : WriterTruncateDiff(w)
    \/ \E w \in Writers : WriterLoadDiff(w)
    \/ \E w \in Writers : WriterDeleteExisting(w)
    \/ \E w \in Writers : WriterInsertNew(w)

CoInit == CoStart /\ SplitIdle /\ DbIdle /\ LockIdle /\ RunIdle /\ JobIdle /\ PaceIdle /\ MainIdle /\ LoadIdle

CoSpec == CoInit /\ [][CoNext]_vars

PaceNext ==
    \/ PacedIteration
    \/ PacedEnd

PaceInit ==
    PaceStart /\ SplitIdle /\ DbIdle /\ LockIdle /\ RunIdle /\ JobIdle /\ CoIdle /\ MainIdle /\ LoadIdle

PaceSpec == PaceInit /\ [][PaceNext]_vars

MainNext ==
    \/ DispatchMode
    \/ EnterFileLock
    \/ MakeCrawler
    \/ RunOneJob
    \/ LeaveTry
    \/ CloseCrawler
    \/ LeaveFileLock

MainInit ==
    MainStart /\ SplitIdle /\ DbIdle /\ LockIdle /\ RunIdle /\ JobIdle /\ CoIdle /\ PaceIdle /\ LoadIdle

MainSpec == MainInit /\ [][MainNext]_vars

LoadNext ==
    \/ MissingFileReturn
    \/ OpenAccountsFile
    \/ ReadLine
    \/ ReadRaises
    \/ ReturnAccounts

LoadInit ==
    LoadStart /\ SplitIdle /\ DbIdle /\ LockIdle /\ RunIdle /\ JobIdle /\ CoIdle /\ PaceIdle /\ MainIdle

LoadSpec == LoadInit /\ [][LoadNext]_vars

(***************************************************************************)
(* C1: for start < end and a chunk size >= 1 the sequence returned by      *)
(* split_by_days / split_by_months / split_by_years is non-empty, starts   *)
(* at start, ends at end, has no empty interval and is contiguous          *)
(* (intervals[i].end = intervals[i+1].start).                              *)
(***************************************************************************)
SplitReturned == split_pc \in {"split_done", "returned"}

SplitCoversRange ==
    (SplitReturned /\ DateLt(start_date, end_date) /\ interval_size >= 1) =>
        /\ Len(intervals) >= 1
        /\ intervals[1][1] = start_date
        /\ intervals[Len(intervals)][2] = end_date
        /\ \A i \in 1 .. Len(intervals) : DateLt(intervals[i][1], intervals[i][2])
        /\ \A i \in 1 .. Len(intervals) - 1 : intervals[i][2] = intervals[i + 1][1]

\* a split whose last interval had to be clamped, after a month-end start
SplitCoversRangeWitness ==
    /\ SplitReturned
    /\ split_strategy = "months"
    /\ interval_size = 2
    /\ start_date = <<2024, 1, 31>>
    /\ end_date = <<2024, 7, 1>>
    /\ Len(intervals) = 3
    /\ intervals[3] = <<<<2024, 5, 31>>, <<2024, 7, 1>>>>



(***************************************************************************)
(* Properties of the upsert engine                                         *)
(***************************************************************************)
RECURSIVE RowCountUpTo(_, _, _)
RowCountUpTo(tb, k, v) ==
    IF v = 0 THEN 0 ELSE tb[[key |-> k, val |-> v]] + RowCountUpTo(tb, k, v - 1)

\* number of rows of tb whose key is k
RowCount(tb, k) == RowCountUpTo(tb, k, MaxVal)

UpsertReturned == upsert_pc = "idle" /\ upsert_status = "returned"

(***************************************************************************)
(* C2: after an upsert has returned successfully the target table holds    *)
(* exactly one row for each key of the batch, equal to the last input      *)
(* record with that key (earlier duplicates of the batch are discarded).   *)
(***************************************************************************)
UpsertStoresLastPerKey ==
    UpsertReturned =>
        \A k \in KeysOf(records) :
            /\ RowCount(table, k) = 1
            /\ table[[key |-> k, val |-> LastVal(records, k)]] = 1

(***************************************************************************)
(* C3: after any sequence of successful upserts on one table, the table    *)
(* holds exactly one row per key ever upserted, with the version of the    *)
(* most recent batch that contained the key, and no other row.             *)
(***************************************************************************)
UpsertsKeepLatestVersion ==
    (upsert_pc = "idle" /\ no_failure) =>
        \A k \in Keys :
            IF written[k] = 0
            THEN RowCount(table, k) = 0
            ELSE /\ RowCount(table, k) = 1
                 /\ table[[key |-> k, val |-> written[k]]] = 1

(***************************************************************************)
(* C4: an upsert leaves every row whose key is not in the incoming batch   *)
(* as it was at the entry of the call, and its delete phase removes        *)
(* exactly the rows whose key is in the batch, whatever keys an earlier    *)
(* batch left in the diff table.                                           *)
(***************************************************************************)
UpsertLeavesOtherKeys ==
    /\ upsert_status \in {"running", "returned", "raised"} =>
           \A r \in Rows : r.key \notin KeysOf(records) => table[r] = pre_table[r]
    /\ upsert_pc = "insert" =>
           \A r \in Rows :
               table[r] = IF r.key \in KeysOf(records) THEN 0 ELSE pre_table[r]

\* the delete phase has run on a table that held a row of the batch's key
\* and a row of another key, which an earlier batch had written
UpsertLeavesOtherKeysWitness ==
    /\ upsert_pc = "insert"
    /\ \E r \in Rows : r.key \notin KeysOf(records) /\ pre_table[r] = 1 /\ table[r] = 1
    /\ \E r \in Rows : r.key \in KeysOf(records) /\ pre_table[r] = 1 /\ table[r] = 0

(***************************************************************************)
(* C5: save_hashtag_posts deduplicates the records on the key, keeping     *)
(* the last occurrence, before the upsert: afterwards the table holds      *)
(* exactly one row per key of the input, with the value of the last input  *)
(* record that has the key.                                                *)
(***************************************************************************)
HashtagDedupKeepsLast ==
    (UpsertReturned /\ table_name = "social_hashtag_posts") =>
        \A k \in KeysOf(records) :
            /\ RowCount(table, k) = 1
            /\ table[[key |-> k, val |-> LastVal(records, k)]] = 1

\* input [{key: K, val: 1}, {key: K, val: 2}]
HashtagDedupKeepsLastWitness ==
    /\ UpsertReturned
    /\ table_name = "social_hashtag_posts"
    /\ records = <<[key |-> 1, val |-> 1], [key |-> 1, val |-> 2]>>
    /\ table[[key |-> 1, val |-> 2]] = 1
    /\ table[[key |-> 1, val |-> 1]] = 0

(***************************************************************************)
(* Properties of file_lock                                                 *)
(***************************************************************************)
InBody(p) == lock_pc[p] = "body"

Finished(p) ==
    lock_pc[p] \notin {"start", "opened", "locked", "body", "finally",
                       "unlocked", "closed"}

HoldsLock(p) == \E i \in Inodes : flock_holder[i] = p

(***************************************************************************)
(* C6: in every interleaving of the open, lock, body, unlock, close and    *)
(* delete steps of any number of processes that enter file_lock on the     *)
(* same path, at most one process is executing the guarded body.           *)
(***************************************************************************)
AtMostOneInBody == Cardinality({p \in Procs : InBody(p)}) <= 1

(***************************************************************************)
(* C7: a caller that finds the lock held neither waits nor retries: its    *)
(* next step ends the process with exit status 1, which is final and is    *)
(* reached without the body; that step releases no lock and does not       *)
(* delete the lock file.                                                   *)
(***************************************************************************)
LoserExitsAtOnce ==
    [][\A p \in Procs :
          /\ (lock_pc[p] = "opened" /\ flock_holder[fd[p]] # NoProc
                  /\ lock_pc'[p] # "opened") =>
                 /\ lock_pc'[p] = "exit1"
                 /\ flock_holder' = flock_holder
                 /\ path_inode' = path_inode
          /\ lock_pc'[p] = "exit1" => lock_pc[p] \in {"opened", "exit1"}
          /\ lock_pc[p] = "exit1" => lock_pc'[p] = "exit1"]_vars

\* one process has exited with status 1 while the holder, whose file is
\* still at the path, is running its body
LoserExitsAtOnceWitness ==
    \E p, q \in Procs :
        /\ lock_pc[p] = "exit1"
        /\ InBody(q)
        /\ flock_holder[path_inode] = q
        /\ fd[q] = path_inode

RunEnded == run_pc = "ended"

(***************************************************************************)
(* C9: in all three disciplines a job whose collector call raises yields   *)
(* an outcome with success = false and does not keep any other job of the  *)
(* batch from running: the run is never cut short, and when it ends every  *)
(* job of the dispatched list has been attempted.                          *)
(***************************************************************************)
FailedJobIsIsolated ==
    /\ run_pc # "aborted"
    /\ RunEnded =>
          /\ attempted = Positions
          /\ \A i \in Positions :
                username_list[i] = "raise" => results[i] \notin {"success", "pending"}

(***************************************************************************)
(* C10: run on the same input, batch_collect, async_batch_collect and      *)
(* multiprocess_batch_collect produce the same multiset of per-job         *)
(* success / failure flags.                                                *)
(***************************************************************************)
DisciplinesAgree ==
    (RunEnded /\ \A d \in DOMAIN Disciplines : flags_by[d] # NotRun) =>
        /\ flags_by[1] = flags_by[2]
        /\ flags_by[2] = flags_by[3]

\* the tasks that hold a slot of the semaphore: inside "async with semaphore"
InFlight == {t \in DOMAIN task_pc : task_pc[t] \in {"jitter", "collecting", "delay"}}

(***************************************************************************)
(* C11: in async_batch_collect with concurrency limit K at most K jobs are *)
(* in flight at every moment (from the grant of a slot through jitter,     *)
(* collection and inter-job delay), and a job gives its slot back on every *)
(* exit path, also when its collection raises: the free slots and the jobs *)
(* in flight always add up to K.                                           *)
(***************************************************************************)
AtMostKInFlight ==
    run_pc = "gather" =>
        /\ Cardinality(InFlight) <= concurrent_limit
        /\ semaphore + Cardinality(InFlight) = concurrent_limit

\* a job whose collection raised has settled, the limit is reached again and
\* another job is still waiting for a slot
AtMostKInFlightWitness ==
    /\ run_pc = "gather"
    /\ Cardinality(InFlight) = concurrent_limit
    /\ concurrent_limit > 0
    /\ \E t \in DOMAIN task_pc :
          task_pc[t] = "settled" /\ results[t] \in {"none", "exception"}
    /\ \E t \in DOMAIN task_pc : task_pc[t] = "pending"

(***************************************************************************)
(* C12: async_batch_collect reports its counts only after every job has    *)
(* settled, and for every job list and every limit K >= 0 the semaphore    *)
(* accepts the run eventually reports, with success and failure counts     *)
(* that sum to the number of jobs.                                         *)
(***************************************************************************)
AsyncReported ==
    /\ run_pc = "ended"
    /\ Disciplines[discipline] = "async"
    /\ summary # NotRun
    /\ summary[1] + summary[2] = Len(username_list)
    /\ \A t \in DOMAIN task_pc : task_pc[t] = "settled"

AsyncRunEventuallyReports == (run_pc = "gather") ~> AsyncReported

\* how often subject x occurs in the list q
Occurrences(q, x) == Cardinality({i \in DOMAIN q : q[i] = x})

Sequential == Disciplines[discipline] = "sequential"

(***************************************************************************)
(* C13: batch_collect dispatches a permutation of the input list (every    *)
(* subject occurs as often as in the input) and runs its jobs one at a     *)
(* time in list order: a job starts only when all jobs before it have      *)
(* finished, no job starts twice, and when batch_collect is over every job *)
(* of the list has been started.                                           *)
(***************************************************************************)
ShuffledThenInOrder ==
    /\ [](Sequential /\ run_pc \in {"loop", "ended", "aborted"} =>
            /\ Len(username_list) = Len(input_list)
            /\ \A x \in Behaviours :
                  Occurrences(username_list, x) = Occurrences(input_list, x)
            /\ run_pc # "loop" => attempted = Positions)
    /\ [][Sequential /\ attempted' # attempted /\ attempted' # {} =>
            /\ attempted' = attempted \cup {Cardinality(attempted) + 1}
            /\ attempted = 1 .. Cardinality(attempted)
            /\ \A i \in attempted : results[i] # "pending"]_vars

(***************************************************************************)
(* Properties of the validation in collect_hashtag_with_time_split         *)
(***************************************************************************)
BadRange == ~DateLt(start_date, end_date)

BadUnit == split_strategy \notin {"days", "months", "years"}

NothingCollected ==
    /\ intervals = <<>>
    /\ batch_i = 1
    /\ success_batches = 0
    /\ failed_batches = 0
    /\ history_entries = 0

(***************************************************************************)
(* C14: the split fails with the invalid-range error whenever              *)
(* start >= end and with the unsupported-unit error for every unit other   *)
(* than days, months, years (the range is checked first); for such input   *)
(* no interval sequence is ever returned, not even an empty one, and no    *)
(* batch is collect_outcome, stored or recorded in the ledger.                   *)
(***************************************************************************)
SplitRejectsBadInput ==
    /\ (BadRange /\ split_pc \notin {"idle", "validate"}) =>
            split_pc = "invalid_range"
    /\ (~BadRange /\ BadUnit /\ split_pc \notin {"idle", "validate", "dispatch"}) =>
            split_pc = "unsupported_strategy"
    /\ (BadRange \/ BadUnit) => ~SplitReturned /\ NothingCollected

\* an empty range has been rejected
SplitRejectsBadInputWitness ==
    /\ split_pc = "invalid_range"
    /\ start_date = end_date
    /\ split_strategy = "months"

\* first + timedelta(days=n), a month at a time
RECURSIVE DaysLater(_, _)
DaysLater(first, n) ==
    LET left == DaysInMonth(first[1], first[2]) - first[3]
    IN  IF n <= left THEN <<first[1], first[2], first[3] + n>>
        ELSE DaysLater(IF first[2] = 12 THEN <<first[1] + 1, 1, 1>>
                       ELSE <<first[1], first[2] + 1, 1>>,
                       n - left - 1)

\* first + n units: timedelta(days=n), relativedelta(months=n) or
\* relativedelta(years=n) applied once to first
AddUnits(unit, first, n) ==
    IF unit = "days" THEN DaysLater(first, n)
    ELSE IF unit = "months" THEN AddMonths(first, n)
    ELSE AddYears(first, n)

(***************************************************************************)
(* C15: for start < end and chunk size >= 1 the splitter returns exactly   *)
(* ceil(total/size) intervals, and interval k (k = 0, 1, ...) is           *)
(* (start + k*size units, min(start + (k+1)*size units, end)).             *)
(***************************************************************************)
SplitIntervalsAreMultiples ==
    (SplitReturned /\ ~BadRange /\ ~BadUnit /\ interval_size >= 1) =>
        LET n == Len(intervals)
            boundary(k) == AddUnits(split_strategy, start_date, k * interval_size)
        IN  /\ n >= 1
            /\ DateLt(boundary(n - 1), end_date)
            /\ DateLe(end_date, boundary(n))
            /\ \A k \in 0 .. n - 1 :
                  intervals[k + 1] = <<boundary(k), Clamp(boundary(k + 1), end_date)>>

(***************************************************************************)
(* Properties of the job runner                                            *)
(***************************************************************************)
JobOver == job_pc \in {"returned", "raised"}

(***************************************************************************)
(* C16: a failure of the ledger write never fails the job: the call        *)
(* returns false instead of raising, so the runner returns right after it  *)
(* with the success flag the collection gave, the records already stored   *)
(* stay as they are, and the caller gets control back for its next jobs.   *)
(***************************************************************************)
LedgerFailureNeverFailsJob ==
    /\ [](ledger_failed =>
            /\ job_pc = "returned"
            /\ job_result = IF collect_outcome = "ok" THEN "success" ELSE "failure")
    /\ [][(job_pc \in {"record", "except_record"}) =>
            (job_pc' = "returned" /\ stored' = stored)]_vars

\* the ledger write of a successful, stored job has failed
LedgerFailureNeverFailsJobWitness ==
    /\ job_pc = "returned"
    /\ ledger_failed
    /\ job_result = "success"
    /\ stored = "written"

\* the rows of collection_history that job j appended
EntriesOf(j) == {i \in DOMAIN ledger : ledger[i][1] = j}

(***************************************************************************)
(* C17: every execution of one job by the job runner appends exactly one   *)
(* entry to the collection-history ledger, on every path (successful       *)
(* result, failed result, collector that could not be created, raised      *)
(* exception), and existing entries are never updated or deleted.          *)
(***************************************************************************)
OneLedgerEntryPerJob ==
    /\ [](JobOver => \A j \in 1 .. job_no : Cardinality(EntriesOf(j)) = 1)
    /\ [][\/ ledger' = ledger
          \/ /\ Len(ledger') = Len(ledger) + 1
             /\ SubSeq(ledger', 1, Len(ledger)) = ledger]_vars

(***************************************************************************)
(* C18: when the upsert of a job's batch fails, the error reaches the job  *)
(* runner: a job whose batch was not written is not returned as a success. *)
(***************************************************************************)
StorageErrorReachesRunner ==
    (JobOver /\ stored = "failed") => job_result # "success"

(***************************************************************************)
(* C19: a failure of the infrastructure shared by the jobs of a batch (the *)
(* process pool cannot be opened) aborts the batch: no job of the batch    *)
(* runs, and multiprocess_batch_collect does not return to its caller as   *)
(* it does after a completed batch.                                        *)
(***************************************************************************)
PoolFailureAbortsBatch ==
    pool = PoolFailed => attempted = {} /\ run_pc = "aborted"

Multiprocess == Disciplines[discipline] = "multiprocess"

\* the dictionary _multiprocess_collect_single_user returns for a subject
OutcomeOf(subject) ==
    IF CollectAll(subject, platform) = "ok" THEN "success" ELSE "failure"

EveryDisciplineReportsCounts ==
    (RunEnded /\ input_list # <<>>) =>
        /\ summary # NotRun
        /\ summary[1] + summary[2] = Len(username_list)

(***************************************************************************)
(* C22: the three phases of one upsert run inside one transaction: when    *)
(* the call fails after the delete phase and before the insert phase has   *)
(* completed, the rows deleted from the target table are not lost, the     *)
(* target table is as it was before the call.                              *)
(***************************************************************************)
FailedUpsertKeepsTable ==
    (upsert_pc = "idle" /\ upsert_status = "raised") => table = pre_table

(***************************************************************************)
(* Properties of concurrent upserts                                        *)
(***************************************************************************)
AllWritersOver == \A w \in Writers : writer_pc[w] \in {"returned", "raised"}

\* the rows of the shared table with key k, counted with multiplicity
RECURSIVE SharedRowCountUpTo(_, _)
SharedRowCountUpTo(k, v) ==
    IF v = 0 THEN 0
    ELSE shared_table[[key |-> k, val |-> v]] + SharedRowCountUpTo(k, v - 1)

SharedRowCount(k) == SharedRowCountUpTo(k, MaxVal)

(***************************************************************************)
(* C23: when several jobs upsert into the same table concurrently, with    *)
(* their diff-truncate, diff-load, delete and insert steps interleaved in  *)
(* any order, then after all of them have finished every key written by    *)
(* any of them has exactly one row, holding a version one of them wrote,   *)
(* and no job's delete phase removes rows of keys that are not in its own  *)
(* batch.                                                                  *)
(***************************************************************************)
ConcurrentUpsertsAreIsolated ==
    /\ [](AllWritersOver =>
            \A w \in Writers : \A k \in KeysOf(writer_df[w]) :
                /\ SharedRowCount(k) = 1
                /\ \E u \in Writers : \E i \in DOMAIN writer_df[u] :
                      /\ writer_df[u][i].key = k
                      /\ shared_table[writer_df[u][i]] = 1)
    /\ [][\A w \in Writers :
            (writer_pc[w] = "delete" /\ writer_pc'[w] = "insert") =>
                \A r \in Rows :
                    shared_table'[r] < shared_table[r] => r.key \in KeysOf(writer_df[w])]_vars

(***************************************************************************)
(* C24: in batch_collect with batch size N over n jobs a batch delay is    *)
(* taken exactly before the jobs at list positions N, 2N, 3N, ... and      *)
(* nowhere else, and an inter-job delay is taken after every job, whether  *)
(* that job succeeded or failed.                                           *)
(***************************************************************************)
DelaysAfterEveryJob ==
    /\ batch_delays \subseteq {i \in 0 .. pace_len - 1 : i % BATCH_SIZE = 0 /\ i # 0}
    /\ pace_pc \in {"loop", "ended", "aborted"} =>
          /\ \A i \in 0 .. pace_i - 1 : i \in job_delays
          /\ \A i \in 1 .. pace_i - 1 : i % BATCH_SIZE = 0 => i \in batch_delays
    /\ pace_pc \in {"ended", "aborted"} => job_delays = 0 .. pace_len - 1

LockFileNamesHolder ==
    \A p \in Procs : InBody(p) => content[fd[p]] = p

(***************************************************************************)
(* C27: when collect_hashtag_with_time_split finishes a valid request      *)
(* split into n intervals, every interval was attempted exactly once in    *)
(* chronological order, success_batches + failed_batches = total_batches   *)
(* = n, total_posts is the sum of the post counts of the successful        *)
(* batches, and exactly n - 1 delays were taken: one after every batch     *)
(* except the last, also after a batch that failed or raised.              *)
(***************************************************************************)
RECURSIVE SumOf(_)
SumOf(counts) ==
    IF counts = <<>> THEN 0 ELSE Head(counts) + SumOf(Tail(counts))

BatchLoopAccounts ==
    split_pc = "returned" =>
        /\ attempted_batches = intervals
        /\ success_batches + failed_batches = Len(intervals)
        /\ Len(all_results) = success_batches
        /\ total_posts = SumOf(all_results)
        /\ batch_sleeps = 1 .. (Len(intervals) - 1)

BatchLoopAccountsWitness ==
    /\ split_pc = "returned"
    /\ Len(intervals) = MaxBatches
    /\ failed_batches = 2
    /\ success_batches = 1
    /\ total_posts = MaxPosts
    /\ batch_sleeps = {1, 2}

(***************************************************************************)
(* C28: for a platform without native time filtering a batch keeps a post  *)
(* iff interval_start <= created_at < interval_end, and a post without     *)
(* created_at is dropped.  The intervals of one request are contiguous and *)
(* do not overlap, so a post with a timestamp in [start, end) is kept by   *)
(* exactly one interval's filter, a post outside [start, end) by none, and *)
(* no post is stored or counted by two batches of the same request.        *)
(***************************************************************************)
\* the positions of the intervals whose filter lets the followed post through
KeepingBatches ==
    {i \in 1 .. Len(intervals) : InInterval(intervals[i], post_created_at)}

PostInRequestRange ==
    /\ post_created_at # NoStamp
    /\ DateLe(start_date, post_created_at)
    /\ DateLt(post_created_at, end_date)

PostKeptByOneBatch ==
    (SplitReturned /\ split_strategy \in {"days", "months", "years"}
        /\ batch_platform # "twitter") =>
        /\ kept_by \subseteq KeepingBatches
        /\ Cardinality(kept_by) <= 1
        /\ PostInRequestRange => Cardinality(KeepingBatches) = 1
        /\ ~PostInRequestRange => KeepingBatches = {} /\ kept_by = {}

PostKeptByOneBatchWitness ==
    /\ split_pc = "returned"
    /\ batch_platform = "instagram"
    /\ Len(intervals) = MaxBatches
    /\ post_created_at = intervals[2][1]
    /\ kept_by = {2}
    /\ success_batches = MaxBatches

(***************************************************************************)
(* C29: load_accounts_from_file assigns every username line only to the    *)
(* platform named by the nearest preceding section header: lines before    *)
(* the first header are assigned to no platform, and lines under a header  *)
(* naming an unsupported platform are assigned to no platform, in          *)
(* particular not to the supported platform whose section came before.     *)
(***************************************************************************)
\* the positions of the section headers in front of line k
HeadersBefore(k) ==
    {j \in 1 .. (k - 1) : ~Skipped(Strip(file_lines[j]))
                            /\ IsHeader(Strip(file_lines[j]))}

\* the platform named by the nearest header in front of line k
SectionOf(k) ==
    IF HeadersBefore(k) = {} THEN NoPlatform
    ELSE LET h == CHOOSE j \in HeadersBefore(k) :
                     \A other \in HeadersBefore(k) : other <= j
             name == HeaderName(Strip(file_lines[h]))
         IN  IF InAccounts(name) THEN name[1] ELSE NoPlatform

IsUsernameLine(k) ==
    /\ ~Skipped(Strip(file_lines[k]))
    /\ ~IsHeader(Strip(file_lines[k]))

\* the usernames of the first n lines that stand in a section of pf
RECURSIVE SectionUsernames(_, _)
SectionUsernames(pf, n) ==
    IF n = 0 THEN <<>>
    ELSE IF IsUsernameLine(n) /\ SectionOf(n) = pf
         THEN Append(SectionUsernames(pf, n - 1), Strip(file_lines[n]))
         ELSE SectionUsernames(pf, n - 1)

UsernamesFollowNearestHeader ==
    load_pc \in {"reading", "returned"} =>
        \A pf \in SupportedPlatforms :
            accounts[pf] = SectionUsernames(pf, line_no - 1)

(***************************************************************************)
(* C30: split_by_days, split_by_months and split_by_years terminate and    *)
(* return a finite sequence for every start, end and every integer chunk   *)
(* size the command line can pass, 0 and negative values included.         *)
(***************************************************************************)
SplitLoopTerminates ==
    (split_pc \in {"days", "months", "years"}) ~> (split_pc = "split_done")

====
